---- MODULE Spec2Model ----
(***************************************************************************)
(* Model of draw.py: the Secret Santa drawing (Hat.draw), the post-draw    *)
(* check, the notification loop and the next-cycle export of __main__.     *)
(***************************************************************************)
EXTENDS Integers, Sequences, FiniteSets, TLC

(* ------------------------------------------------------------------ *)
(* Bounds and input universe                                            *)
(* ------------------------------------------------------------------ *)

\* Longest forbidden list a roster entry carries in the model.
MaxForbidden == 2

\* The names a PARTY file may use, in file order (the keys of the yaml mapping).
AllNames == <<"Alice", "Bob", "Carol">>

\* Python's None (Person.giftee before the draw).
None == "None"

\* Exception state of the process: no exception raised so far.
NoError == "none"

Range(s) == {s[i] : i \in 1..Len(s)}

NameSet == Range(AllNames)

\* Lists of names without repetition, of length at most MaxForbidden.
ForbiddenLists ==
    {f \in UNION {[1..k -> NameSet] : k \in 0..MaxForbidden} :
        \A i, j \in 1..Len(f) : i # j => f[i] # f[j]}

\* Rosters: the first n names of the file, n >= 1.
Rosters == {SubSeq(AllNames, 1, n) : n \in 1..Len(AllNames)}

VARIABLES
    people,     \* Party.people: the roster's names in file order
    loaded,     \* the forbidden lists as the PARTY file gave them, by name
    forbidden,  \* Person.forbidden, by name
    giftee,     \* Person.giftee, by name (None until set)
    hat,        \* Hat.names
    pruned,     \* the local list `pruned` of the turn in progress / last turn
    drawn,      \* the local `giftee` of draw: the name last drawn or popped
    turn,       \* index in people of the participant whose turn is next
    pc,         \* where __main__ is
    error,      \* the exception that ended the process, if any
    attempts,   \* names for which email() has been called, in order
    failed,     \* names whose delivery raised smtplib.SMTPException (caught)
    nextYaml    \* the mapping dumped to next.yaml (empty domain: not written)

vars == <<people, loaded, forbidden, giftee, hat, pruned, drawn, turn, pc,
          error, attempts, failed, nextYaml>>

(* ------------------------------------------------------------------ *)
(* List helpers (Python list semantics)                                 *)
(* ------------------------------------------------------------------ *)

Contains(s, x) == \E i \in 1..Len(s) : s[i] = x

\* list.remove(x): drops the first occurrence of x (the caller checks presence).
ListRemove(s, x) ==
    LET i == CHOOSE k \in 1..Len(s) : s[k] = x /\ \A j \in 1..(k-1) : s[j] # x
    IN  SubSeq(s, 1, i-1) \o SubSeq(s, i+1, Len(s))

\* A pop that reads the i-th element and leaves it in the list (names[i]).
PopKeepsName(s, i) == s

\* list.pop(i) with a 1-based index: the list without its i-th element.
ListPop(s, i) == SubSeq(s, 1, i-1) \o SubSeq(s, i+1, Len(s))

Last(s) == s[Len(s)]

Front(s) == SubSeq(s, 1, Len(s)-1)

(* ------------------------------------------------------------------ *)
(* Initial state: Party() and Hat() built from the same PARTY file      *)
(* ------------------------------------------------------------------ *)

Init ==
    /\ people \in Rosters
    /\ loaded \in [Range(people) -> ForbiddenLists]
    /\ forbidden = loaded
    /\ giftee = [n \in Range(people) |-> None]
    /\ hat = people
    /\ pruned = <<>>
    /\ drawn = None
    /\ turn = 1
    /\ pc = "draw"
    /\ error = NoError
    /\ attempts = <<>>
    /\ failed = {}
    /\ nextYaml = [n \in {} |-> <<>>]

(* ------------------------------------------------------------------ *)
(* Hat.draw: one participant's turn (one iteration of the roster loop)  *)
(* ------------------------------------------------------------------ *)

\* A loop body that keeps working on the first participant.
ParticipantFirst == people[1]

\* The participant whose turn it is.
Participant == people[turn]

\* A pruning that leaves the drawer's own name in the hat.
PruneOnlyForbidden(p) == forbidden[p]

\* A pruning that leaves the forbidden names in the hat.
PruneOnlySelf(p) == <<p>>

\* The names the turn tries to remove from the hat, in order: the drawer's
\* own name, then the drawer's forbidden list.
PruneList(p) == <<p>> \o forbidden[p]

\* The try/remove/append/except-ValueError sequence over the names of todo:
\* a name that is in the hat moves to pruned, a name that is not is skipped.
RECURSIVE PruneHat(_, _, _)
PruneHat(h, pr, todo) ==
    IF todo = <<>> THEN [names |-> h, pruned |-> pr]
    ELSE IF Contains(h, Head(todo))
         THEN PruneHat(ListRemove(h, Head(todo)), Append(pr, Head(todo)), Tail(todo))
         ELSE PruneHat(h, pr, Tail(todo))

\* The hat and the pruned list once the current participant has pruned.
Pruning == PruneHat(hat, <<>>, PruneList(Participant))

\* The attributes a Party instance has: __init__ sets people and nothing else.
PartyAttrs == {"people"}

\* The test the swap loop applies to `other` once the candidate list exists:
\* other is not on the participant's forbidden list (second filter of the
\* comprehension), the candidate is not forbidden to other, and other's giftee
\* is neither forbidden to the participant nor the participant's own name.
QualifiesAsPartner(other, participant, candidate) ==
    /\ ~Contains(forbidden[participant], other)
    /\ ~Contains(forbidden[other], candidate)
    /\ ~Contains(forbidden[participant], giftee[other])
    /\ giftee[other] # participant

\* An exception that is dropped, the run going on to the notification loop.
Swallowed(exc) == pc' = "email" /\ error' = exc

\* An exception nothing catches: the interpreter prints the traceback and the
\* process ends there with exit status 1.
Uncaught(exc) == pc' = "crashed" /\ error' = exc

\* A turn end that forgets to put the pruned names back.
RestoreNothing(rest, pr) == rest

\* self.names.extend(pruned): the pruned names go back behind what is left.
Restore(rest, pr) == rest \o pr

\* The else branch: the pruned hat is not empty, a name is drawn at random,
\* assigned, and the pruned names go back to the hat.
Draw ==
    /\ pc = "draw"
    /\ turn <= Len(people)
    /\ Len(Pruning.names) # 0
    /\ \E i \in 1..Len(Pruning.names) :
          /\ giftee' = [giftee EXCEPT ![Participant] = Pruning.names[i]]
          /\ drawn' = Pruning.names[i]
          /\ hat' = Restore(ListPop(Pruning.names, i), Pruning.pruned)
    /\ pruned' = Pruning.pruned
    /\ turn' = turn + 1
    /\ pc' = IF turn' > Len(people) THEN "check" ELSE "draw"
    /\ UNCHANGED <<people, loaded, forbidden, error, attempts, failed, nextYaml>>

\* A reconciliation that raises nothing, finds no partner and goes on with
\* the last-pruned name as the giftee.
ReconcileKeepsCandidate ==
    /\ pc = "draw"
    /\ turn <= Len(people)
    /\ Len(Pruning.names) = 0
    /\ Pruning.pruned # <<>>
    /\ drawn' = Last(Pruning.pruned)
    /\ giftee' = [giftee EXCEPT ![Participant] = Last(Pruning.pruned)]
    /\ pruned' = Front(Pruning.pruned)
    /\ hat' = Restore(Pruning.names, Front(Pruning.pruned))
    /\ turn' = turn + 1
    /\ pc' = IF turn' > Len(people) THEN "check" ELSE "draw"
    /\ UNCHANGED <<people, loaded, forbidden, error, attempts, failed, nextYaml>>

\* The if branch: the pruned hat is empty. pruned.pop() takes the candidate
\* (IndexError on an empty list); building the list of swap candidates then
\* reads group.name, and group is the Party, which has no such attribute:
\* AttributeError is raised before any swap, and nothing in draw or __main__
\* catches it. The names pruned this turn are not put back.
Reconcile ==
    /\ pc = "draw"
    /\ turn <= Len(people)
    /\ Len(Pruning.names) = 0
    /\ hat' = Pruning.names
    /\ IF Pruning.pruned = <<>>
       THEN /\ pruned' = Pruning.pruned
            /\ drawn' = drawn
            /\ Uncaught("IndexError")
       ELSE /\ pruned' = Front(Pruning.pruned)
            /\ drawn' = Last(Pruning.pruned)
            /\ "name" \notin PartyAttrs
            /\ Uncaught("AttributeError")
    /\ UNCHANGED <<people, loaded, forbidden, giftee, turn, attempts, failed, nextYaml>>

(* ------------------------------------------------------------------ *)
(* __main__ after the draw                                              *)
(* ------------------------------------------------------------------ *)

\* Python truth value of a giftee: None and the empty string are false.
Truthy(v) == v # None /\ v # ""

\* The loop that looks for a participant without a giftee and exits with 1.
Validate ==
    /\ pc = "check"
    /\ pc' = IF \E n \in Range(people) : ~Truthy(giftee[n]) THEN "exit1" ELSE "email"
    /\ UNCHANGED <<people, loaded, forbidden, giftee, hat, pruned, drawn, turn,
                   error, attempts, failed, nextYaml>>

\* What one call of the SMTP sequence can do: succeed, raise an
\* smtplib.SMTPException (login refused, recipient refused, ...), or raise
\* another OSError (the connection to the host cannot be opened).
DeliveryOutcomes == {"sent", "SMTPException", "OSError"}

\* The except clause of email(): only smtplib.SMTPException is handled.
Caught(out) == out = "SMTPException"

\* One call email(person) of the notification loop.
Email ==
    /\ pc = "email"
    /\ Len(attempts) < Len(people)
    /\ LET person == people[Len(attempts) + 1]
       IN  /\ attempts' = Append(attempts, person)
           /\ \E out \in DeliveryOutcomes :
                 IF out = "sent" \/ Caught(out)
                 THEN /\ failed' = IF out = "sent" THEN failed ELSE failed \cup {person}
                      /\ pc' = IF Len(attempts') = Len(people) THEN "export" ELSE "email"
                      /\ error' = error
                 ELSE /\ failed' = failed
                      /\ Uncaught(out)
    /\ UNCHANGED <<people, loaded, forbidden, giftee, hat, pruned, drawn, turn, nextYaml>>

\* An export that caps the list and forgets the new giftee.
NewForbiddenWithoutGiftee(f, g) == IF Len(f) > 1 THEN Front(f) ELSE f

\* The forbidden list exported for one person: the list itself when it has at
\* most one entry, else a copy without its last entry; the giftee appended.
NewForbidden(f, g) == Append(IF Len(f) > 1 THEN Front(f) ELSE f, g)

\* Building party_dict and dumping it to next.yaml. With at most one entry
\* new_forbidden is the person's own list, so the append changes it too.
Export ==
    /\ pc = "export"
    /\ nextYaml' = [n \in Range(people) |-> NewForbidden(forbidden[n], giftee[n])]
    /\ forbidden' = [n \in Range(people) |->
                        IF Len(forbidden[n]) > 1 THEN forbidden[n]
                        ELSE Append(forbidden[n], giftee[n])]
    /\ pc' = "done"
    /\ UNCHANGED <<people, loaded, giftee, hat, pruned, drawn, turn, error,
                   attempts, failed>>

\* Exit status of the process once it has ended.
ExitStatus == IF pc \in {"crashed", "exit1"} THEN 1 ELSE 0

Terminated == pc \in {"crashed", "exit1", "done"}

Next == Draw \/ Reconcile \/ Validate \/ Email \/ Export

Spec == Init /\ [][Next]_vars

(* ------------------------------------------------------------------ *)
(* Vocabulary of the properties                                         *)
(* ------------------------------------------------------------------ *)

Roster == Range(people)

\* The roster loop of draw has run to its end.
DrawCompleted == turn > Len(people)

\* g is a valid assignment for the roster as loaded: a permutation of the
\* names with no fixed point and no forbidden pair.
ValidAssignment(g) ==
    /\ \A a, b \in Roster : a # b => g[a] # g[b]
    /\ \A n \in Roster : g[n] # n /\ ~Contains(loaded[n], g[n])

Feasible == \E g \in [Roster -> Roster] : ValidAssignment(g)

\* The next-cycle file has been written.
Written == DOMAIN nextYaml # {}

(* ------------------------------------------------------------------ *)
(* Properties                                                           *)
(* ------------------------------------------------------------------ *)

\* C1: for a roster whose exclusions admit a valid assignment, once draw has
\* processed every participant each participant has a giftee from the roster
\* and each roster name is the giftee of exactly one participant.
C1_Permutation ==
    (Feasible /\ DrawCompleted) =>
        /\ \A n \in Roster : giftee[n] \in Roster
        /\ \A m \in Roster : Cardinality({n \in Roster : giftee[n] = m}) = 1

C1_Witness ==
    /\ Feasible
    /\ DrawCompleted
    /\ Len(people) = 3
    /\ \E n \in Roster : loaded[n] # <<>>

\* C2: once draw has processed the roster nobody is their own giftee.
C2_NoSelfGift == DrawCompleted => \A n \in Roster : giftee[n] # n

C2_Witness ==
    /\ DrawCompleted
    /\ Len(people) >= 2
    /\ \A n \in Roster : giftee[n] \in Roster \ {n}

\* C3: once draw has processed the roster nobody's giftee is on the forbidden
\* list they came with.
C3_NoForbiddenGift ==
    DrawCompleted => \A n \in Roster : ~Contains(loaded[n], giftee[n])

C3_Witness ==
    /\ DrawCompleted
    /\ \E n \in Roster : \E m \in Roster \ {n} : Contains(loaded[n], m)

\* C4: for a roster whose exclusions admit a valid assignment, draw never
\* aborts part-way through the roster loop.
C4_DrawTerminatesNormally == Feasible => ~(pc = "crashed" /\ ~DrawCompleted)

\* C5: for a roster with no valid assignment draw never runs to completion,
\* nothing after the draw is reached, and the process ends with a non-zero
\* exit status.
C5_InfeasibleFails ==
    ~Feasible =>
        /\ ~DrawCompleted
        /\ pc \in {"draw", "crashed"}
        /\ Terminated => ExitStatus = 1

C5_Witness ==
    /\ people = <<"Alice", "Bob">>
    /\ Contains(loaded["Alice"], "Bob")
    /\ Contains(loaded["Bob"], "Alice")
    /\ ~Feasible
    /\ pc = "crashed"

\* C6: when pruning has emptied the hat on the last participant's turn and no
\* other participant qualifies as a swap partner, the run does not end in an
\* unhandled error and the participant is not given the last-pruned name.
C6_ExplicitFailure ==
    (/\ Len(people) >= 2
     /\ turn = Len(people)
     /\ hat = <<>>
     /\ \A other \in Roster \ {Participant} :
            ~QualifiesAsPartner(other, Participant, drawn))
    => /\ error = NoError
       /\ giftee[Participant] # drawn

\* C7: while some participant's giftee is unset after the assignment phase,
\* no notification has been attempted, no next-cycle file is written, the run
\* never gets past the check, and a process that has ended has exit status 1.
C7_UnresolvedIsFatal ==
    (pc # "draw" /\ \E n \in Roster : giftee[n] = None) =>
        /\ attempts = <<>>
        /\ ~Written
        /\ pc \in {"check", "crashed", "exit1"}
        /\ Terminated => ExitStatus = 1

C7_Witness ==
    /\ Terminated
    /\ \E n \in Roster : giftee[n] = None
    /\ \E n \in Roster : giftee[n] # None

\* C8: a step that leaves some notification attempted leaves the draw
\* completed with every giftee set, and once a notification has been
\* attempted no step changes any giftee.
C8_AssignBeforeNotify ==
    [][/\ attempts' # <<>> =>
            (DrawCompleted' /\ \A n \in Roster : giftee'[n] # None)
       /\ attempts # <<>> => giftee' = giftee]_vars

C8_Witness ==
    /\ attempts = people
    /\ failed # {}
    /\ Written

\* C9: once notification has begun and the loop is no longer running, a
\* delivery attempt has been made for every participant; and no step taken
\* after a delivery failure changes a giftee.
C9_BatchNotAborted ==
    [][/\ (attempts' # <<>> /\ pc' # "email") => attempts' = people
       /\ attempts # <<>> => giftee' = giftee]_vars

\* C11: for a roster of at least two participants whose forbidden lists are
\* all empty, draw never aborts part-way, and a completed draw is a
\* derangement: every name used exactly once, nobody their own giftee.
C11_NoExclusionsDerangement ==
    (Len(people) >= 2 /\ \A n \in Roster : loaded[n] = <<>>) =>
        /\ error = NoError \/ DrawCompleted
        /\ DrawCompleted =>
              /\ \A m \in Roster : Cardinality({n \in Roster : giftee[n] = m}) = 1
              /\ \A n \in Roster : giftee[n] # n

\* C12: in the next-cycle export every participant's updated forbidden list
\* contains the giftee that participant was assigned in this run.
C12_ExportExcludesGiftee ==
    Written => \A n \in Roster : Contains(nextYaml[n], giftee[n])

C12_Witness ==
    /\ Written
    /\ \E n \in Roster : Len(loaded[n]) > 1
    /\ \E n \in Roster : Len(loaded[n]) = 0

\* C13: a completed turn takes exactly one name out of the hat, the name it
\* consumed, and puts every other pruned name back; so after k completed
\* turns the hat holds the roster size minus k names.
C13_TurnShrinksHatByOne ==
    [][turn' = turn + 1 =>
          /\ Len(hat') = Len(hat) - 1
          /\ Range(hat') = Range(hat) \ {giftee'[Participant]}
          /\ Range(pruned') \subseteq Range(hat')
          /\ Len(hat') + (turn' - 1) = Len(people)]_vars

C13_Witness ==
    /\ turn > 1
    /\ Len(pruned) >= 2
    /\ hat # <<>>
    /\ error = NoError

\* C14: between turns no name is both in the hat and some participant's
\* giftee.
C14_HatDisjointFromGiftees ==
    \A n \in Roster : ~Contains(hat, giftee[n])

C14_Witness ==
    /\ pc = "draw"
    /\ turn = 3
    /\ turn <= Len(people)
    /\ pruned # <<>>
    /\ hat # <<>>

\* C16: a step changes at most one giftee, only from unset to set: a giftee
\* that has been set is never changed again.
C16_GifteeWrittenOnce ==
    [][/\ \A n \in Roster : giftee[n] # None => giftee'[n] = giftee[n]
       /\ Cardinality({n \in Roster : giftee'[n] # giftee[n]}) <= 1]_vars

C16_Witness ==
    /\ pc = "done"
    /\ Len(people) = 3
    /\ \A n \in Roster : giftee[n] # None

\* C17: the hat is not empty at the start of any participant's turn, and the
\* reconciliation branch never fails taking the last-pruned name (no
\* IndexError from pruned.pop()).
C17_HatNonEmptyAtTurnStart ==
    /\ (pc = "draw" /\ turn <= Len(people)) => hat # <<>>
    /\ error # "IndexError"

C17_Witness ==
    /\ error = "AttributeError"
    /\ drawn # None
    /\ turn >= 2

\* C18: every participant email() has been called for has a giftee that is a
\* roster name, is not the participant and is not on the participant's
\* forbidden list.
C18_NotifiedGifteeValid ==
    \A i \in 1..Len(attempts) :
        /\ giftee[attempts[i]] \in Roster \ {attempts[i]}
        /\ ~Contains(loaded[attempts[i]], giftee[attempts[i]])

C18_Witness ==
    /\ pc = "email"
    /\ Len(attempts) >= 1
    /\ loaded[attempts[1]] # <<>>

\* C19: a turn whose pruning leaves the hat empty ends the run with
\* AttributeError: the step changes no giftee, the current participant's
\* giftee stays unset, no notification has been attempted, and no step is
\* ever taken after that error.
C19_EmptyHatAborts ==
    [][/\ (pc = "draw" /\ turn <= Len(people) /\ Len(Pruning.names) = 0) =>
            /\ pc' = "crashed"
            /\ error' = "AttributeError"
            /\ giftee' = giftee
            /\ giftee'[Participant] = None
            /\ attempts' = <<>>
       /\ error # "AttributeError"]_vars

C19_Witness ==
    /\ pc = "crashed"
    /\ error = "AttributeError"
    /\ hat = <<>>
    /\ giftee[Participant] = None
    /\ \E n \in Roster : giftee[n] # None

====
